---- MODULE Spec2Model ----
(***************************************************************************)
(* Model of quickdirtyscan.c: the sequential sweep of main(), the second   *)
(* dial of check_port_state() and the /proc walk of get_process_info().    *)
(*                                                                         *)
(* Everything outside the program (socket(), connect(), the directory      *)
(* listing of /proc, the contents of the per-process files, the user       *)
(* database) answers nondeterministically at the moment the program asks.  *)
(***************************************************************************)
EXTENDS Integers, Sequences, FiniteSets, TLC

(* ------------------------------------------------- constants and helpers *)

START_PORT == 1

\* END_PORT is 65535 in the source; the sweep is scaled down to a few ports.
END_PORT == 2

\* Characters are small integers: 0..9 are the digits '0'..'9', 10..15 the
\* hexadecimal letters 'A'..'F', anything above is some other character.
isdigit(c) == c \in 0..9

\* atoi(): the value of the leading decimal digits, 0 when there are none.
RECURSIVE atoi_acc(_, _)
atoi_acc(s, acc) ==
  IF s = <<>> \/ ~isdigit(Head(s)) THEN acc
  ELSE atoi_acc(Tail(s), acc * 10 + Head(s))

atoi(s) == atoi_acc(s, 0)

\* sscanf("%X"): the value of a run of hexadecimal digits.
RECURSIVE hex_acc(_, _)
hex_acc(s, acc) ==
  IF s = <<>> THEN acc ELSE hex_acc(Tail(s), acc * 16 + Head(s))

HexValue(s) == hex_acc(s, 0)

\* htons(): the port as the 16-bit value that goes on the wire.
htons(p) == p % 65536

(* ------------------------------------------------------- the environment *)

\* The processes of the host; the scanner is one of them.
Pids == 1..3

\* The listing of /proc, in the order readdir() walks it: a non-numeric entry
\* such as "self", then the processes. Any of them may be gone when the
\* directory is read.
OtherName == <<28, 14, 21, 15>>
DirOrder == <<OtherName, <<1>>, <<2>>, <<3>>>>

\* The name and the real uid of each process.
CommOf(d_name) ==
  IF d_name = <<1>> THEN "systemd" ELSE IF d_name = <<2>> THEN "bash" ELSE "sshd"
UidOf(d_name) == IF d_name = <<1>> THEN 0 ELSE 1000

\* A line of /proc/<pid>/net/tcp: the column header, a line sscanf() cannot
\* split into address and port, or an entry with its local port in hex.
Header == <<"sl">>
Garbage == <<"??">>
Entry(hex) == <<"entry", hex>>

\* The hexadecimal port fields that occur: 1, 2, 0x0A and 0x10.
HexFields == {<<0, 0, 0, 1>>, <<0, 0, 0, 2>>, <<0, 0, 0, 10>>, <<0, 0, 1, 0>>}

\* Contents of net/tcp: the header followed by at most two lines.
DataLines == {Garbage} \cup {Entry(h) : h \in HexFields}
TcpFiles ==
  {<<Header>>} \cup {<<Header, a>> : a \in DataLines}
    \cup {<<Header, Garbage, a>> : a \in DataLines}
    \cup {<<Header, Entry(<<0, 0, 0, 1>>), Entry(<<0, 0, 0, 2>>)>>,
          <<Header, Entry(<<0, 0, 1, 0>>), Entry(<<0, 0, 0, 10>>)>>}

\* Contents of comm: empty, or the name followed by its line terminator.
CommFiles(d_name) == {<<>>, <<CommOf(d_name), "\n">>}

\* Contents of status: lines label/value; the Uid: line may be missing.
StatusFiles(d_name) ==
  { <<<<"Name:", 0>>, <<"Pid:", 0>>>>,
    <<<<"Name:", 0>>, <<"Uid:", UidOf(d_name)>>, <<"Gid:", 7>>>> }

\* The user database: the name of a uid when the lookup succeeds.
pw_name(uid) == IF uid = 0 THEN "root" ELSE "user"

\* The service database: the conventional name of a port, "" when none.
s_name(netport) == IF netport = htons(1) THEN "tcpmux" ELSE ""

\* A NULL struct dirent pointer (no d_name is empty).
NULL == <<>>

\* A file the program could not open, and an open file with its content.
NoFile == [open |-> FALSE, data |-> <<>>]
File(d) == [open |-> TRUE, data |-> d]

VARIABLES
  pc,            \* position of the single thread of control
  our_pid,       \* global our_pid
  port,          \* loop variable of main / argument of the callees
  sock,          \* main: TRUE while sock is an open descriptor
  test_sock,     \* check_port_state: TRUE while test_sock is open
  service,       \* main: s_name of the getservbyport result, "" for NULL
  port_state,    \* main: result of check_port_state
  process_info,  \* static buffer of get_process_info: <<>> or <<name, pid, user>>
  proc_dir,      \* get_process_info: TRUE while /proc is open
  dirpos,        \* position of proc_dir in the listing of /proc
  nsocks,        \* number of open socket descriptors of the process
  nfiles,        \* number of open FILE/DIR handles of the process
  report,        \* lines printed so far: <<port, state, service, process>>
  log,           \* history of socket()/connect() calls: <<call, port, ok>>
  nowners,       \* history of this walk: other processes whose table held the port
  first          \* history of this walk: what was read of the first of them

vars == <<pc, our_pid, port, sock, test_sock, service, port_state, process_info,
          proc_dir, dirpos, nsocks, nfiles, report, log, nowners, first>>

mainVars == <<sock, test_sock, service, port_state, report, log, nsocks>>
walkVars == <<process_info, proc_dir, dirpos, nfiles, nowners, first>>

\* No process has been found to own the port in this walk.
NoOwner == [pid |-> NULL, rec |-> <<>>]

(* ------------------------------------------------------------------ main *)

\* A close() that is forgotten leaves the count as it was.
LeakSocket(n) == n

\* close(fd): the number of open sockets once one of them is closed.

close(n) == n - 1

\* The loop test with < for <=.
LoopTestExclusive(p) == IF p < END_PORT THEN "socket" ELSE "done"

\* for (...; port <= END_PORT; ...): the loop test, after the init or the increment.
LoopTest(p) == IF p <= END_PORT THEN "socket" ELSE "done"

Init ==
  /\ pc = "start"
  /\ our_pid = 0
  /\ port = 0
  /\ sock = FALSE
  /\ test_sock = FALSE
  /\ service = ""
  /\ port_state = 0
  /\ process_info = <<>>
  /\ proc_dir = FALSE
  /\ dirpos = 0
  /\ nsocks = 0
  /\ nfiles = 0
  /\ report = <<>>
  /\ log = <<>>
  /\ nowners = 0
  /\ first = NoOwner

\* our_pid = getpid(); the banner; int port = START_PORT and the first loop test.
MainStart ==
  /\ pc = "start"
  /\ \E p \in Pids : our_pid' = p
  /\ port' = START_PORT
  /\ pc' = LoopTest(START_PORT)
  /\ UNCHANGED <<mainVars, walkVars>>

\* sock = socket(...); if (sock < 0) continue;
MainSocket ==
  /\ pc = "socket"
  /\ \E ok \in BOOLEAN :
       /\ TRUE
       /\ log' = Append(log, <<"socket", port, ok>>)
       /\ IF ok
            THEN /\ sock' = TRUE
                 /\ nsocks' = nsocks + 1
                 /\ pc' = "connect"
                 /\ port' = port
            ELSE /\ port' = port + 1
                 /\ pc' = LoopTest(port + 1)
                 /\ UNCHANGED <<sock, nsocks>>
  /\ UNCHANGED <<our_pid, test_sock, service, port_state, report, walkVars>>

\* if (connect(sock, ...) == 0) { service = getservbyport(htons(port), "tcp"); ...
MainConnect ==
  /\ pc = "connect"
  /\ \E ok \in BOOLEAN :
       /\ log' = Append(log, <<"connect", htons(port), ok>>)
       /\ IF ok
            THEN /\ service' = s_name(htons(port))
                 /\ pc' = "cps_socket"
            ELSE /\ pc' = "close"
                 /\ UNCHANGED service
  /\ UNCHANGED <<our_pid, port, sock, test_sock, port_state, report, nsocks, walkVars>>

(* ------------------------------------------------------ check_port_state *)

\* test_sock = socket(...); if (test_sock < 0) return 0;
CpsSocket ==
  /\ pc = "cps_socket"
  /\ \E ok \in BOOLEAN :
       /\ TRUE
       /\ log' = Append(log, <<"socket2", port, ok>>)
       /\ IF ok
            THEN /\ test_sock' = TRUE
                 /\ nsocks' = nsocks + 1
                 /\ pc' = "cps_connect"
                 /\ UNCHANGED port_state
            ELSE /\ port_state' = 0
                 /\ pc' = "gpi_open"
                 /\ UNCHANGED <<test_sock, nsocks>>
  /\ UNCHANGED <<our_pid, port, sock, service, report, walkVars>>

\* The two return values exchanged.
DialResultSwapped(ok) == IF ok THEN 1 ELSE 2

\* The value check_port_state returns after its connect().
DialResult(ok) == IF ok THEN 2 ELSE 1

\* if (connect(test_sock, ...) == 0) { close; return 2; } close; return 1;
CpsConnect ==
  /\ pc = "cps_connect"
  /\ \E ok \in BOOLEAN :
       /\ log' = Append(log, <<"connect2", htons(port), ok>>)
       /\ port_state' = DialResult(ok)
  /\ test_sock' = FALSE
  /\ nsocks' = close(nsocks)
  /\ pc' = "gpi_open"
  /\ UNCHANGED <<our_pid, port, sock, service, report, walkVars>>

(* ------------------------------------------------------ get_process_info *)

\* sscanf(line, "%*d: %[^:]:%X", local_addr, &local_port) == 2
Parses(line) == Len(line) = 2 /\ line[1] = "entry"
LocalPort(line) == HexValue(line[2])

\* while (fgets(line, ...)) { if (sscanf(...) == 2) { if (local_port == port) ...
\* TRUE when the loop reaches a line of the target port.
RECURSIVE ScanLines(_, _)
ScanLines(lines, p) ==
  IF lines = <<>> THEN FALSE
  ELSE IF Parses(Head(lines)) /\ LocalPort(Head(lines)) = p THEN TRUE
  ELSE ScanLines(Tail(lines), p)

\* fgets(line, ...) skips the header; then the loop above.
ScanTable(data, p) == IF data = <<>> THEN FALSE ELSE ScanLines(Tail(data), p)

\* The skip test without the comparison against our_pid.
SkippedNonNumeric(d_name, self) == ~isdigit(d_name[1])

\* if (!isdigit(entry->d_name[0]) || atoi(entry->d_name) == our_pid) continue;
Skipped(d_name, self) == ~isdigit(d_name[1]) \/ atoi(d_name) = self

\* proc_name[strcspn(proc_name, "\n")] = 0 on the line fgets() returned.
RECURSIVE UpToNewline(_)
UpToNewline(s) ==
  IF s = <<>> \/ Head(s) = "\n" THEN <<>> ELSE <<Head(s)>> \o UpToNewline(Tail(s))

\* The uid the status loop ends with: the value of the first "Uid:" line, else 0.
RECURSIVE ScanUid(_)
ScanUid(lines) ==
  IF lines = <<>> THEN 0
  ELSE IF Head(lines)[1] = "Uid:" THEN Head(lines)[2]
  ELSE ScanUid(Tail(lines))

\* pw ? pw->pw_name : "unknown"
OwnerName(uid, found) == IF found THEN pw_name(uid) ELSE "unknown"

\* snprintf(process_info, ..., "%-15s  PID: %-6s  User: %-8s", ...)
Format(proc_name, d_name, owner) == <<proc_name, d_name, owner>>

\* The static buffer left as the previous call filled it.
Kept(buf) == buf

\* process_info[0] = '\0': the static buffer at the start of a call.
Cleared(buf) == <<>>

\* process_info[0] = '\0'; proc_dir = opendir("/proc"); if (!proc_dir) return ...
GpiOpen ==
  /\ pc = "gpi_open"
  /\ process_info' = Cleared(process_info)
  /\ nowners' = 0
  /\ first' = NoOwner
  /\ dirpos' = 0
  /\ \E ok \in BOOLEAN :
       IF ok
         THEN /\ proc_dir' = TRUE
              /\ nfiles' = nfiles + 1
              /\ pc' = "gpi_readdir"
         ELSE /\ pc' = "print"
              /\ UNCHANGED <<proc_dir, nfiles>>
  /\ UNCHANGED <<our_pid, port, mainVars>>

\* readdir() returned NULL: closedir(proc_dir); return process_info;
GpiReturn ==
  /\ pc = "gpi_readdir"
  /\ proc_dir' = FALSE
  /\ nfiles' = nfiles - 1
  /\ pc' = "print"
  /\ UNCHANGED <<our_pid, port, process_info, dirpos, nowners, first, mainVars>>

\* What the detail block leaves in process_info.
Detail(d_name, comm, status, found) ==
  IF comm.open /\ status.open /\ comm.data # <<>>
    THEN Format(UpToNewline(comm.data), d_name, OwnerName(ScanUid(status.data), found))
    ELSE process_info

\* Handles the detail block leaves open: it closes comm_fp and status_fp only
\* inside if (comm_fp && status_fp).
LeftOpen(comm, status) ==
  IF comm.open /\ status.open THEN 0
  ELSE (IF comm.open THEN 1 ELSE 0) + (IF status.open THEN 1 ELSE 0)

\* The kernel prints the local port of an entry as four hexadecimal digits.
KernelHex(p) == <<0, 0, (p \div 16) % 16, p % 16>>

\* History: process d_name is not the scanner and its socket table, as read,
\* holds an entry whose local port is p.
Owns(d_name, tcp, p) ==
  /\ d_name \in {<<q>> : q \in Pids \ {our_pid}}
  /\ tcp.open
  /\ \E i \in 2..Len(tcp.data) : tcp.data[i] = Entry(KernelHex(p))

\* History: the record the files of process d_name, as read, amount to.
Record(d_name, comm, status, found) ==
  IF comm.open /\ status.open /\ comm.data # <<>>
    THEN <<<<CommOf(d_name)>>, d_name,
           IF ~found THEN "unknown"
           ELSE IF \E i \in 1..Len(status.data) : status.data[i][1] = "Uid:"
             THEN pw_name(UidOf(d_name)) ELSE pw_name(0)>>
    ELSE <<>>

\* The body of while ((entry = readdir(proc_dir)) != NULL) for the entry at
\* position i, given what the files answer: the skip test, the scan of the
\* socket table and, on a matching line, the detail block; fclose(fp).
Turn(i, tcp, comm, status, found) ==
  LET d     == DirOrder[i]
      match == ~Skipped(d, our_pid) /\ tcp.open /\ ScanTable(tcp.data, port)
      owns  == Owns(d, tcp, port)
  IN  /\ dirpos' = i
      /\ process_info' = IF match THEN Detail(d, comm, status, found)
                         ELSE process_info
      /\ nfiles' = IF match THEN nfiles + LeftOpen(comm, status) ELSE nfiles
      /\ nowners' = IF owns THEN nowners + 1 ELSE nowners
      /\ first' = IF owns /\ nowners = 0
                    THEN [pid |-> d, rec |-> Record(d, comm, status, found)]
                    ELSE first

\* The files answer as they are opened: net/tcp unless the entry is skipped,
\* comm and status if a line matched, the user database if a name was read.
GpiEntry ==
  /\ pc = "gpi_readdir"
  /\ \E i \in (dirpos + 1)..Len(DirOrder) :
       IF Skipped(DirOrder[i], our_pid)
         THEN Turn(i, NoFile, NoFile, NoFile, FALSE)
         ELSE \E tcp \in {NoFile} \cup {File(x) : x \in TcpFiles} :
           IF ~(tcp.open /\ ScanTable(tcp.data, port))
             THEN Turn(i, tcp, NoFile, NoFile, FALSE)
             ELSE \E comm \in {NoFile} \cup {File(x) : x \in CommFiles(DirOrder[i])},
                     status \in {NoFile} \cup {File(x) : x \in StatusFiles(DirOrder[i])} :
               IF ~(comm.open /\ status.open /\ comm.data # <<>>)
                 THEN Turn(i, tcp, comm, status, FALSE)
                 ELSE \E found \in BOOLEAN : Turn(i, tcp, comm, status, found)
  /\ UNCHANGED <<pc, our_pid, port, proc_dir, mainVars>>

(* ------------------------------------------------------------ main, cont. *)

\* The state column without the OPEN fallback.
StateNameTwoWay(st) == IF st = 2 THEN "LISTENING" ELSE "ESTABLISHED"

\* port_state == 2 ? "LISTENING" : port_state == 1 ? "ESTABLISHED" : "OPEN"
StateName(st) == IF st = 2 THEN "LISTENING" ELSE IF st = 1 THEN "ESTABLISHED" ELSE "OPEN"

\* The line printf() emits for an open port.
Line(p, st, serv, info) ==
  <<p, StateName(st),
    IF serv # "" THEN serv ELSE "unknown",
    IF info # <<>> THEN info ELSE <<"unknown">> >>

\* A report that lists a port only when an owner was found.
PrintedIfOwned(rep, p, st, serv, info) ==
  IF info = <<>> THEN rep ELSE Append(rep, Line(p, st, serv, info))

\* The report once main has handled the results of an open port: the printf()
\* is unconditional.
Printed(rep, p, st, serv, info) == Append(rep, Line(p, st, serv, info))

\* printf("%-*d %-*s %-*s %s\n", ...)
MainPrint ==
  /\ pc = "print"
  /\ report' = Printed(report, port, port_state, service, process_info)
  /\ nowners' = 0
  /\ first' = NoOwner
  /\ dirpos' = 0
  /\ pc' = "close"
  /\ UNCHANGED <<our_pid, port, sock, test_sock, service, port_state, log, nsocks,
                 process_info, proc_dir, nfiles>>

\* close(sock); port++ and the loop test
MainClose ==
  /\ pc = "close"
  /\ sock' = FALSE
  /\ nsocks' = close(nsocks)
  /\ port' = port + 1
  /\ pc' = LoopTest(port + 1)
  /\ UNCHANGED <<our_pid, test_sock, service, port_state, report, log, walkVars>>

Next ==
  \/ MainStart
  \/ MainSocket
  \/ MainConnect
  \/ CpsSocket
  \/ CpsConnect
  \/ GpiOpen
  \/ GpiEntry
  \/ GpiReturn
  \/ MainPrint
  \/ MainClose

Spec == Init /\ [][Next]_vars

(* ------------------------------------------- get_process_info on its own *)

\* Ports get_process_info is called with: the correlator takes any port.
CallPorts == {1, 2, 10, 16}

\* What an earlier call can have left in the static buffer.
Leftover(self) ==
  {<<>>} \cup {Format(<<CommOf(<<q>>)>>, <<q>>, "root") : q \in Pids \ {self}}

\* main has an open port at hand and calls get_process_info(port).
InitCall ==
  /\ pc = "gpi_open"
  /\ our_pid \in Pids
  /\ port \in CallPorts
  /\ sock = TRUE
  /\ test_sock = FALSE
  /\ service = ""
  /\ port_state \in {DialResult(TRUE)}
  /\ process_info \in Leftover(our_pid)
  /\ proc_dir = FALSE
  /\ dirpos = 0
  /\ nsocks = 1
  /\ nfiles = 0
  /\ report = <<>>
  /\ log = <<>>
  /\ nowners = 0
  /\ first = NoOwner

NextCall ==
  \/ GpiOpen
  \/ GpiEntry
  \/ GpiReturn

SpecCall == InitCall /\ [][NextCall]_vars

(* ---------------------------------------------------------------- claims *)

LogSet == {log[i] : i \in 1..Len(log)}
IsSocket(e) == e[1] = "socket"
IsOpen(e) == e[1] = "connect" /\ e[3]
Sockets == SelectSeq(log, IsSocket)
Opened == SelectSeq(log, IsOpen)
Returned == pc = "print"

\* C1: the ports the sweep handles are START_PORT, START_PORT + 1, ... in
\* ascending order, each once, whatever socket() and connect() answer; every
\* connection attempt, first or second, goes to a port of
\* START_PORT..END_PORT; a port whose socket was created is dialled; and when
\* the sweep is done every port up to END_PORT has been handled.
C1_SweepRange ==
  /\ \A i \in 1..Len(Sockets) : Sockets[i][2] = START_PORT + i - 1
  /\ \A e \in LogSet :
       e[1] \in {"connect", "connect2"} => e[2] \in START_PORT..END_PORT
  /\ \A i \in 1..Len(Sockets) :
       Sockets[i][3] /\ ~(i = Len(Sockets) /\ pc = "connect")
         => \E e \in LogSet : e[1] = "connect" /\ e[2] = Sockets[i][2]
  /\ pc = "done" => Len(Sockets) = END_PORT - START_PORT + 1

C1_Witness ==
  /\ pc = "done"
  /\ <<"socket", START_PORT, FALSE>> \in LogSet
  /\ <<"connect", END_PORT, TRUE>> \in LogSet

\* C2: the report holds one line for each port whose first connect()
\* succeeded, in the order of the sweep (ascending), and nothing else: a line
\* is printed also when no owner and no service name were found.
C2_ReportIsOpenPorts ==
  /\ Len(report) <= Len(Opened)
  /\ \A i \in 1..Len(report) : report[i][1] = Opened[i][2]
  /\ \A i, j \in 1..Len(report) : i < j => report[i][1] < report[j][1]
  /\ pc \in {"socket", "close", "done"} => Len(report) = Len(Opened)

C2_Witness ==
  /\ pc = "done"
  /\ <<"connect", START_PORT, FALSE>> \in LogSet
  /\ Len(report) = 1
  /\ report[1][1] = END_PORT
  /\ report[1][3] = "unknown"
  /\ Len(report[1][4]) = 1

\* C3: the state of every line is LISTENING exactly when the second connect()
\* to the port succeeded, ESTABLISHED exactly when it failed, OPEN exactly
\* when no second socket could be created; the second dial happens while the
\* first socket is still open.
C3_StateFromSecondDial ==
  /\ \A i \in 1..Len(report) :
       /\ report[i][2] \in {"LISTENING", "ESTABLISHED", "OPEN"}
       /\ report[i][2] = "LISTENING" <=> <<"connect2", report[i][1], TRUE>> \in LogSet
       /\ report[i][2] = "ESTABLISHED" <=> <<"connect2", report[i][1], FALSE>> \in LogSet
       /\ report[i][2] = "OPEN" <=> <<"socket2", report[i][1], FALSE>> \in LogSet
  /\ pc \in {"cps_socket", "cps_connect"} => sock

C3_Witness ==
  /\ Len(report) = 2
  /\ report[1][2] = "ESTABLISHED"
  /\ Len(report[1][4]) = 3
  /\ report[2][2] = "LISTENING"
  /\ Len(report[2][4]) = 1

\* C4: the record in process_info never carries the scanner's own process id.
C4_NeverSelf ==
  process_info # <<>> => atoi(process_info[2]) # our_pid

\* The scanner's own entry has been read from /proc during this walk, and the
\* result is another process's record.
C4_Witness ==
  /\ Returned
  /\ dirpos > 0
  /\ atoi(DirOrder[dirpos]) = our_pid
  /\ process_info # <<>>

\* C5: when several processes hold the port in their tables and the first of
\* them (in enumeration order) yielded a record, get_process_info returns that
\* record; a later process does not replace it.
C5_FirstMatchWins ==
  Returned /\ nowners >= 2 /\ first.rec # <<>> => process_info = first.rec

\* C6: when get_process_info returns: with exactly one owner whose comm and
\* status could be read, the result carries its pid and its name; with no
\* owner the result is empty whatever the buffer held before the call.
C6_OwnerOrNone ==
  Returned =>
    /\ nowners = 1 /\ first.rec # <<>> =>
         /\ process_info # <<>>
         /\ process_info[2] = first.pid
         /\ process_info[1] = first.rec[1]
    /\ nowners = 0 => process_info = <<>>

C6_Witness ==
  /\ Returned
  /\ port = 16
  /\ nowners = 1
  /\ first.rec # <<>>
  /\ first.pid = <<3>>

\* C7: between two entries of /proc only the directory handle is open, and no
\* handle is open when get_process_info is not running.
C7_HandlesClosed ==
  nfiles = IF pc = "gpi_readdir" THEN 1 ELSE 0

\* C8: the sockets open are exactly sock and test_sock, so at most two; none
\* is open when the probe of a port begins or when the sweep is done.
C8_SocketsClosed ==
  /\ nsocks = (IF sock THEN 1 ELSE 0) + (IF test_sock THEN 1 ELSE 0)
  /\ nsocks <= 2
  /\ pc \in {"socket", "done"} => nsocks = 0

C8_Witness ==
  /\ pc = "done"
  /\ <<"connect", START_PORT, TRUE>> \in LogSet
  /\ <<"connect2", START_PORT, TRUE>> \in LogSet
  /\ <<"connect", END_PORT, FALSE>> \in LogSet

\* C9 as claimed: a port for which a socket() failed, for the first or for the
\* second dial, has no line in the report.
C9_SkippedOnAnySocketFailure ==
  \A e \in LogSet :
    e[1] \in {"socket", "socket2"} /\ ~e[3]
      => \A i \in 1..Len(report) : report[i][1] # e[2]

\* C9 amended: a port whose first socket() failed has no line and the sweep
\* has moved past it; a port whose second socket() failed gets its line, with
\* state OPEN, and the sweep moves past it as well.
C9_SkippedOnFirstSocketFailure ==
  \A e \in LogSet :
    /\ e[1] = "socket" /\ ~e[3] =>
         /\ \A i \in 1..Len(report) : report[i][1] # e[2]
         /\ port > e[2]
    /\ e[1] = "socket2" /\ ~e[3] /\ pc \in {"socket", "connect", "close", "done"} =>
         /\ \E i \in 1..Len(report) : report[i][1] = e[2] /\ report[i][2] = "OPEN"
         /\ pc \in {"socket", "connect", "done"} => port > e[2]

C9_Witness ==
  /\ pc = "done"
  /\ <<"socket", START_PORT, FALSE>> \in LogSet
  /\ <<"socket2", END_PORT, FALSE>> \in LogSet

\* C10: when the first owner's comm and status were read and the user
\* database had no entry for its uid, get_process_info returns that process's
\* record with owner "unknown".
C10_UnknownOwnerKept ==
  Returned /\ nowners >= 1 /\ first.rec # <<>> /\ first.rec[3] = "unknown"
    => process_info = first.rec

====
